---- MODULE Spec2Model ----
(***************************************************************************)
(* Model of api/index.py: the sliding-window rate limiter, the response    *)
(* cache, the upstream call, the statistics, the two janitor tasks and the *)
(* lifespan shutdown, run on one asyncio event loop.                       *)
(*                                                                         *)
(* Time is counted in clock ticks of 1/TicksPerSec second, so that the     *)
(* float arithmetic of time.time() and the int() truncations of the code   *)
(* are distinguishable.  Configuration values are in seconds, as in the    *)
(* environment variables.                                                  *)
(***************************************************************************)
EXTENDS Integers, Sequences, FiniteSets, TLC

VARIABLES
    cfg,               \* RATE_LIMIT, RATE_WINDOW, CACHE_TTL read at import
    now,               \* time.time(), in ticks
    rate_logs,         \* dict ip -> list of timestamps
    response_cache,    \* dict cache_key -> payload
    cache_timestamps,  \* dict cache_key -> timestamp
    handlers,          \* the request tasks: idle, or suspended in client.get
    task,              \* state of the two janitor tasks
    ready,             \* the event loop's FIFO queue of task wakeups
    lifespan_pc,       \* position of the lifespan context manager
    admitted,          \* history: ip -> the admissions of the trailing window
    rejected,          \* history: ip -> its latest rate check, if a rejection
    stored,            \* history: cache_key -> latest store (time, payload)
    served,            \* history: cache_key -> age reported by the latest hit
                       \*          since that store
    last,              \* what the step just taken did for its request
    pre                \* history: what held before the request of that step

vars == <<cfg, now, rate_logs, response_cache, cache_timestamps, handlers, task,
          ready, lifespan_pc, admitted, rejected, stored,
          served, last, pre>>

---------------------------------------------------------------------------
(* Bounds of the model *)

TicksPerSec == 2
MaxTime == 5

---------------------------------------------------------------------------
(* Inputs *)

Clients == {"A", "B"}
Handlers == {1, 2}
Janitors == {"cleanup_task1", "cleanup_task2"}
Payloads == {"x1", "x2"}

UrlMissing == [given |-> FALSE, scheme |-> "", rest |-> ""]
UrlFtp == [given |-> TRUE, scheme |-> "ftp://", rest |-> "x"]
UrlHttp == [given |-> TRUE, scheme |-> "http://", rest |-> "a"]
UrlHttps == [given |-> TRUE, scheme |-> "https://", rest |-> "a"]
Urls == {UrlMissing, UrlFtp, UrlHttp, UrlHttps}

\* What the awaited client.get / raise_for_status / response.json can produce.
UpstreamFailures == {"ConnectTimeout", "ReadTimeout", "HTTPStatusError",
                     "RequestError", "JSONDecodeError", "Exception"}

\* Bodies of 2xx replies that are valid JSON but not a JSON object.
NotObjects == {"[]"}

\* Replies that raise_for_status turns into HTTPStatusError: the status code,
\* and the body as Response.json() and Response.text give it.  json is
\* "object" for a JSON object, "array" for other valid JSON, "invalid" for a
\* body that is not JSON.
ErrorBadKey ==
    [json |-> "object", has_error |-> TRUE, error |-> "bad key",
     text |-> "{\"error\":\"bad key\"}"]
ErrorNoKey == [json |-> "object", has_error |-> FALSE, error |-> "", text |-> "{}"]
ErrorArray == [json |-> "array", has_error |-> FALSE, error |-> "", text |-> "[]"]
ErrorHtml ==
    [json |-> "invalid", has_error |-> FALSE, error |-> "", text |-> "Forbidden"]
ErrorEmpty == [json |-> "invalid", has_error |-> FALSE, error |-> "", text |-> ""]
ErrorBodies == {ErrorBadKey, ErrorNoKey, ErrorArray, ErrorHtml, ErrorEmpty}
ErrorCodes == {403, 500}
NoReply == [status_code |-> -1, body |-> ErrorEmpty]

ErrorReplies == [status_code : ErrorCodes, body : ErrorBodies]
Forbidden == [status_code |-> 403, body |-> ErrorBadKey]

\* What the exception of a failure carries: for HTTPStatusError a reply, of
\* those in R.
Carried(failure, R) == IF failure = "HTTPStatusError" THEN R ELSE {NoReply}

\* Environments: RATE_LIMIT, RATE_WINDOW and CACHE_TTL are read with os.getenv.
RateConfig == [RATE_LIMIT |-> 2, RATE_WINDOW |-> 2, CACHE_TTL |-> 2]
CacheConfig == [RATE_LIMIT |-> 2, RATE_WINDOW |-> 1, CACHE_TTL |-> 2]
ScenarioConfig == [RATE_LIMIT |-> 2, RATE_WINDOW |-> 60, CACHE_TTL |-> 300]

---------------------------------------------------------------------------
(* Configuration *)

RATE_LIMIT == cfg.RATE_LIMIT
RATE_WINDOW == cfg.RATE_WINDOW
CACHE_TTL == cfg.CACHE_TTL

\* Seconds as clock ticks, and int(x) of a non-negative time difference.
Secs(s) == s * TicksPerSec
int(d) == d \div TicksPerSec

---------------------------------------------------------------------------
(* Dictionaries *)

EmptyDict == [k \in {} |-> 0]
Put(d, k, v) == [x \in (DOMAIN d) \cup {k} |-> IF x = k THEN v ELSE d[x]]
Del(d, k) == [x \in (DOMAIN d) \ {k} |-> d[x]]
Get(d, k, default) == IF k \in DOMAIN d THEN d[k] ELSE default

---------------------------------------------------------------------------
(* Rate limiter *)

\* [t for t in rate_logs[ip] if (now - t) < RATE_WINDOW]
PruneWindow(logs, t) == SelectSeq(logs, LAMBDA x : (t - x) < Secs(RATE_WINDOW))

\* Mutant: the age of the oldest timestamp is rounded up instead of truncated.
RetryAfter_rounds_up(logs, t) ==
    RATE_WINDOW - ((t - logs[1] + TicksPerSec - 1) \div TicksPerSec)

\* RATE_WINDOW - int(now - rate_logs[ip][0])
RetryAfter(logs, t) == RATE_WINDOW - int(t - logs[1])

\* Mutant: a rejected call is appended too.
check_rate_limit_counts_rejections(logs, t) ==
    LET pruned == PruneWindow(logs, t)
    IN  IF Len(pruned) >= RATE_LIMIT
        THEN [logs |-> Append(pruned, t), raised |-> TRUE,
              retry_after |-> RetryAfter(pruned, t)]
        ELSE [logs |-> Append(pruned, t), raised |-> FALSE, retry_after |-> -1]

\* Mutant: the limit is compared with > instead of >=.
check_rate_limit_off_by_one(logs, t) ==
    LET pruned == PruneWindow(logs, t)
    IN  IF Len(pruned) > RATE_LIMIT
        THEN [logs |-> pruned, raised |-> TRUE,
              retry_after |-> RetryAfter(pruned, t)]
        ELSE [logs |-> Append(pruned, t), raised |-> FALSE, retry_after |-> -1]

\* The new list of the client, and whether HTTPException(429) is raised.
check_rate_limit(logs, t) ==
    LET pruned == PruneWindow(logs, t)
    IN  IF Len(pruned) >= RATE_LIMIT
        THEN [logs |-> pruned, raised |-> TRUE,
              retry_after |-> RetryAfter(pruned, t)]
        ELSE [logs |-> Append(pruned, t), raised |-> FALSE, retry_after |-> -1]

---------------------------------------------------------------------------
(* Response cache *)

\* urllib.parse.quote(url, safe=""): ":" and "/" are percent-encoded, the
\* unreserved characters of the rest are kept.
Quote(scheme) ==
    CASE scheme = "http://" -> "http%3A%2F%2F"
      [] scheme = "https://" -> "https%3A%2F%2F"
      [] scheme = "ftp://" -> "ftp%3A%2F%2F"
      [] OTHER -> scheme

get_cache_key(url) == [scheme |-> Quote(url.scheme), rest |-> url.rest]

\* "not url": None and the empty string are falsy.
UrlFalsy(url) == ~url.given \/ (url.scheme = "" /\ url.rest = "")

\* url.startswith(('http://', 'https://'))
UrlStartsWithHttp(url) == url.scheme \in {"http://", "https://"}

\* isinstance(result, dict) of a parsed 2xx body
isdict(data) == data \notin NotObjects

\* Mutant: the age is taken from the default timestamp 0.
CacheAge_since_epoch(key, t) == t - 0

\* time.time() - cache_timestamps.get(cache_key, 0)
CacheAge(key, t) == t - Get(cache_timestamps, key, 0)

\* Mutant: an entry that is exactly CACHE_TTL old is still served.
CacheHit_inclusive(key, nocache, t) ==
    /\ ~nocache
    /\ key \in DOMAIN response_cache
    /\ CacheAge(key, t) <= Secs(CACHE_TTL)

\* Mutant: nocache is not looked at.
CacheHit_ignores_nocache(key, nocache, t) ==
    /\ key \in DOMAIN response_cache
    /\ CacheAge(key, t) < Secs(CACHE_TTL)

\* "not nocache and cache_key in response_cache" and "cache_age < CACHE_TTL"
CacheHit(key, nocache, t) ==
    /\ ~nocache
    /\ key \in DOMAIN response_cache
    /\ CacheAge(key, t) < Secs(CACHE_TTL)

---------------------------------------------------------------------------
(* Responses.  status 0 with upstream set: no response yet, the handler is *)
(* suspended in client.get.                                                *)

\* The fields of the body of GET /stats.
NoStats ==
    [active_ips |-> -1, total_recent_requests |-> -1, items |-> -1,
     max_age |-> -1, timestamp |-> -1]

\* cause is the exception that ended the request, status_code and message
\* are the items of the same names in the detail of the HTTPException.
NoResponse ==
    [ip |-> "", url |-> UrlMissing, nocache |-> FALSE, status |-> 0,
     error |-> "", retry_after |-> -1, hit |-> FALSE, age_seconds |-> -1,
     stored |-> FALSE, data |-> "", upstream |-> FALSE, cause |-> "",
     reply |-> NoReply, status_code |-> -1, message |-> "", stats |-> NoStats]

\* HTTPException(429) of check_rate_limit
Throttled(ip, url, nocache, retry) ==
    [NoResponse EXCEPT !.ip = ip, !.url = url, !.nocache = nocache,
        !.status = 429, !.error = "Rate limit exceeded", !.retry_after = retry]

\* HTTPException(400) of download
BadRequest(ip, url, nocache, error) ==
    [NoResponse EXCEPT !.ip = ip, !.url = url, !.nocache = nocache,
        !.status = 400, !.error = error]

\* {**response_cache[cache_key], "_cache": {"hit": True, "age_seconds": ...}}
HitResponse(ip, url, nocache, key) ==
    [NoResponse EXCEPT !.ip = ip, !.url = url, !.nocache = nocache,
        !.status = 200, !.hit = TRUE, !.data = response_cache[key].data,
        !.age_seconds = int(CacheAge(key, now))]

\* The handler is suspended in "await client.get(...)".
Awaiting(ip, url, nocache) ==
    [NoResponse EXCEPT !.ip = ip, !.url = url, !.nocache = nocache,
        !.upstream = TRUE]

\* result with result["_cache"] = {"hit": False, "stored": True, ...}
StoredResponse(h, data) ==
    [NoResponse EXCEPT !.url = handlers[h].url, !.nocache = handlers[h].nocache,
        !.status = 200, !.stored = TRUE, !.data = data, !.upstream = TRUE]

\* Mutant: the timeouts are reported as 502 too.
UpstreamStatus_timeouts_as_bad_gateway(failure) ==
    IF failure \in {"ConnectTimeout", "ReadTimeout", "HTTPStatusError",
                    "RequestError", "JSONDecodeError"}
    THEN 502
    ELSE 500

\* The except clauses of download, in their order.
UpstreamStatus(failure) ==
    CASE failure = "ConnectTimeout" -> 504
      [] failure = "ReadTimeout" -> 504
      [] failure = "HTTPStatusError" -> 502
      [] failure = "RequestError" -> 502
      [] failure = "JSONDecodeError" -> 502
      [] OTHER -> 500

UpstreamError(failure) ==
    CASE failure \in {"ConnectTimeout", "ReadTimeout"} -> "Gateway Timeout"
      [] failure = "HTTPStatusError" -> "External API Error"
      [] failure = "RequestError" -> "Bad Gateway"
      [] failure = "JSONDecodeError" -> "Invalid Response"
      [] OTHER -> "Internal Server Error"

\* str(e) of an HTTPStatusError
StrHTTPStatusError(status_code) ==
    CASE status_code = 403 -> "Client error '403 Forbidden'"
      [] status_code = 500 -> "Server error '500 Internal Server Error'"
      [] OTHER -> "HTTPStatusError"

\* error_detail["message"]: e.response.json().get("error", str(e)), and when
\* that raises (the body is not JSON, or not an object), e.response.text or
\* str(e).
StatusErrorMessage(reply) ==
    IF reply.body.json = "object"
    THEN IF reply.body.has_error
         THEN reply.body.error
         ELSE StrHTTPStatusError(reply.status_code)
    ELSE IF reply.body.text /= ""
         THEN reply.body.text
         ELSE StrHTTPStatusError(reply.status_code)

UpstreamMessage(failure, reply) ==
    CASE failure = "ConnectTimeout" -> "Connection to external API timed out"
      [] failure = "ReadTimeout" -> "External API response timed out"
      [] failure = "HTTPStatusError" -> StatusErrorMessage(reply)
      [] failure = "RequestError" -> "Failed to connect to external API: str(e)"
      [] failure = "JSONDecodeError" -> "External API returned invalid JSON"
      [] OTHER -> "str(e)"

FailedResponse(h, failure, reply) ==
    [NoResponse EXCEPT !.url = handlers[h].url, !.nocache = handlers[h].nocache,
        !.status = UpstreamStatus(failure), !.error = UpstreamError(failure),
        !.upstream = TRUE, !.cause = failure, !.reply = reply,
        !.status_code = reply.status_code,
        !.message = UpstreamMessage(failure, reply)]

\* result["_cache"] = {...} on a result that is not a dict raises TypeError
\* inside the try, after the store: "except Exception" makes it a 500.
NotSubscriptable(h, data) ==
    [NoResponse EXCEPT !.url = handlers[h].url, !.nocache = handlers[h].nocache,
        !.status = 500, !.error = "Internal Server Error", !.upstream = TRUE,
        !.cause = "TypeError", !.data = data, !.message = "str(e)"]

\* {**response_cache[cache_key], ...} on a cached value that is not a dict
\* raises TypeError outside the try: the server answers 500.
NotAMapping(ip, url, nocache) ==
    [NoResponse EXCEPT !.ip = ip, !.url = url, !.nocache = nocache,
        !.status = 500, !.error = "Internal Server Error", !.cause = "TypeError"]

---------------------------------------------------------------------------
(* Initial state: the module is imported with the environment env, and     *)
(* lifespan has started both janitor tasks, which are suspended in their   *)
(* first asyncio.sleep.                                                    *)

Idle == [pc |-> "idle", client_ip |-> "", url |-> UrlMissing, nocache |-> FALSE]
NotRejected == [time |-> -1, retry_after |-> -1]
NoPre == [full |-> FALSE, waited |-> FALSE, prev_age |-> -1]

Boot(envs) ==
    /\ cfg \in envs
    /\ now = 0
    /\ rate_logs = EmptyDict
    /\ response_cache = EmptyDict
    /\ cache_timestamps = EmptyDict
    /\ handlers = [h \in Handlers |-> Idle]
    /\ task = [j \in Janitors |-> "sleeping"]
    /\ ready = <<>>
    /\ lifespan_pc = "serving"
    /\ admitted = [ip \in Clients |-> <<>>]
    /\ rejected = [ip \in Clients |-> NotRejected]
    /\ stored = EmptyDict
    /\ served = EmptyDict
    /\ last = NoResponse
    /\ pre = NoPre

---------------------------------------------------------------------------
(* The clock: time.time() is non-decreasing.  It moves to the next instant *)
(* of a set of instants.                                                   *)

\* The admissions of ts that are less than RATE_WINDOW seconds old at time t.
InWindow(ts, t) == SelectSeq(ts, LAMBDA x : t - x < RATE_WINDOW * TicksPerSec)

Tick(instants) ==
    /\ \E t \in instants :
          /\ t > now
          /\ \A u \in instants : u > now => t <= u
          /\ now' = t
    /\ admitted' = [ip \in Clients |-> InWindow(admitted[ip], now')]
    /\ last' = NoResponse
    /\ pre' = NoPre
    /\ UNCHANGED <<cfg, rate_logs, response_cache, cache_timestamps, handlers,
                   task, ready, lifespan_pc, rejected, stored, served>>

---------------------------------------------------------------------------
(* GET / : download, up to its return or to the await of client.get *)

\* Mutant: a hit refreshes the timestamp of the entry.
ServeHit_refreshes(ip, url, nocache, cache_key) ==
    /\ last' = HitResponse(ip, url, nocache, cache_key)
    /\ served' = Put(served, cache_key, last'.age_seconds)
    /\ cache_timestamps' = Put(cache_timestamps, cache_key, now)
    /\ UNCHANGED <<handlers, response_cache, stored>>

\* The cached payload is returned: no upstream call, no store.
ServeHit(ip, url, nocache, cache_key) ==
    /\ last' = HitResponse(ip, url, nocache, cache_key)
    /\ served' = Put(served, cache_key, last'.age_seconds)
    /\ UNCHANGED <<handlers, response_cache, cache_timestamps, stored>>

\* "async with httpx.AsyncClient(...)" up to "await client.get(...)".
CallUpstream(h, ip, url, nocache) ==
    /\ handlers' = [handlers EXCEPT ![h] =
                       [pc |-> "client.get", client_ip |-> ip, url |-> url,
                        nocache |-> nocache]]
    /\ last' = Awaiting(ip, url, nocache)
    /\ UNCHANGED <<served, response_cache, cache_timestamps, stored>>

\* raise HTTPException(...)
Raise(response) ==
    /\ last' = response
    /\ UNCHANGED <<handlers, served, response_cache, cache_timestamps, stored>>

download(h, ip, url, nocache) ==
    /\ lifespan_pc = "serving"
    /\ handlers[h].pc = "idle"
    /\ \A g \in Handlers : g < h => handlers[g].pc /= "idle"
    /\ LET rl == check_rate_limit(Get(rate_logs, ip, <<>>), now)
           cache_key == get_cache_key(url)
       IN  /\ rate_logs' = Put(rate_logs, ip, rl.logs)
           /\ rejected' = [rejected EXCEPT ![ip] =
                              IF rl.raised
                              THEN [time |-> now, retry_after |-> rl.retry_after]
                              ELSE NotRejected]
           /\ admitted' = IF rl.raised THEN admitted
                          ELSE [admitted EXCEPT ![ip] = Append(@, now)]
           /\ pre' = [full |-> Len(InWindow(admitted[ip], now)) = RATE_LIMIT,
                      waited |-> /\ rejected[ip] /= NotRejected
                                 /\ now >= rejected[ip].time
                                           + rejected[ip].retry_after * TicksPerSec,
                      prev_age |-> Get(served, cache_key, -1)]
           /\ IF rl.raised
              THEN Raise(Throttled(ip, url, nocache, rl.retry_after))
              ELSE IF UrlFalsy(url)
              THEN Raise(BadRequest(ip, url, nocache, "Missing required parameter"))
              ELSE IF ~UrlStartsWithHttp(url)
              THEN Raise(BadRequest(ip, url, nocache, "Invalid URL format"))
              ELSE IF CacheHit(cache_key, nocache, now)
              THEN IF isdict(response_cache[cache_key].data)
                   THEN ServeHit(ip, url, nocache, cache_key)
                   ELSE Raise(NotAMapping(ip, url, nocache))
              ELSE CallUpstream(h, ip, url, nocache)
    /\ UNCHANGED <<cfg, now, task, ready, lifespan_pc>>

\* Mutant: the store writes the payload and not its timestamp.
Store_payload_only(cache_key, data) ==
    /\ response_cache' = Put(response_cache, cache_key,
                             [data |-> data,
                              cache_info |-> IF isdict(data) THEN "stored" ELSE ""])
    /\ cache_timestamps' = cache_timestamps

\* response_cache[cache_key] = result; cache_timestamps[cache_key] = time.time()
\* (the "_cache" item added to result afterwards is added to the cached dict
\* too, which is the same object).
Store(cache_key, data) ==
    /\ response_cache' = Put(response_cache, cache_key,
                             [data |-> data,
                              cache_info |-> IF isdict(data) THEN "stored" ELSE ""])
    /\ cache_timestamps' = Put(cache_timestamps, cache_key, now)

\* client.get returned a 2xx response with a JSON body: the store, and the
\* return or, for a body that is not an object, the TypeError of the
\* "_cache" annotation.
download_stored(h, data) ==
    /\ handlers[h].pc = "client.get"
    /\ Store(get_cache_key(handlers[h].url), data)
    /\ stored' = Put(stored, get_cache_key(handlers[h].url),
                     [time |-> now, data |-> data])
    /\ served' = Del(served, get_cache_key(handlers[h].url))
    /\ last' = IF isdict(data)
               THEN StoredResponse(h, data)
               ELSE NotSubscriptable(h, data)
    /\ pre' = NoPre
    /\ handlers' = [handlers EXCEPT ![h] = Idle]
    /\ UNCHANGED <<cfg, now, rate_logs, task, ready, lifespan_pc, admitted,
                   rejected>>

\* Mutant: a failed upstream call gives the client its timestamp back.
download_failed_refunds(h, failure, reply) ==
    /\ handlers[h].pc = "client.get"
    /\ last' = FailedResponse(h, failure, reply)
    /\ pre' = NoPre
    /\ handlers' = [handlers EXCEPT ![h] = Idle]
    /\ rate_logs' = [ip \in DOMAIN rate_logs |->
                         IF ip = handlers[h].client_ip
                         THEN SubSeq(rate_logs[ip], 1, Len(rate_logs[ip]) - 1)
                         ELSE rate_logs[ip]]
    /\ UNCHANGED <<cfg, now, response_cache, cache_timestamps, task, ready,
                   lifespan_pc, admitted, rejected, stored, served>>

\* Mutant: a failed upstream call evicts the entry of its URL.
download_failed_evicts(h, failure, reply) ==
    /\ handlers[h].pc = "client.get"
    /\ last' = FailedResponse(h, failure, reply)
    /\ pre' = NoPre
    /\ handlers' = [handlers EXCEPT ![h] = Idle]
    /\ response_cache' = Del(response_cache, get_cache_key(handlers[h].url))
    /\ cache_timestamps' = Del(cache_timestamps, get_cache_key(handlers[h].url))
    /\ UNCHANGED <<cfg, now, rate_logs, task, ready, lifespan_pc, admitted,
                   rejected, stored, served>>

\* client.get, raise_for_status or response.json raised.
download_failed(h, failure, reply) ==
    /\ handlers[h].pc = "client.get"
    /\ last' = FailedResponse(h, failure, reply)
    /\ pre' = NoPre
    /\ handlers' = [handlers EXCEPT ![h] = Idle]
    /\ UNCHANGED <<cfg, now, rate_logs, response_cache, cache_timestamps, task,
                   ready, lifespan_pc, admitted, rejected, stored, served>>

---------------------------------------------------------------------------
(* GET /stats *)

RECURSIVE SumLen(_, _)
\* sum(len(logs) for logs in rate_logs.values()), over the keys of S
SumLen(d, S) ==
    IF S = {} THEN 0
    ELSE LET k == CHOOSE x \in S : TRUE
         IN  Len(d[k]) + SumLen(d, S \ {k})

\* max(d.values()) of a non-empty dict of numbers
MaxValue(d) == CHOOSE v \in {d[k] : k \in DOMAIN d} : \A k \in DOMAIN d : d[k] <= v

\* The body returned by stats: the tables are read as they are.
StatsBody ==
    [active_ips |-> Cardinality(DOMAIN rate_logs),
     total_recent_requests |-> SumLen(rate_logs, DOMAIN rate_logs),
     items |-> Cardinality(DOMAIN response_cache),
     max_age |-> IF cache_timestamps /= EmptyDict
                 THEN MaxValue(cache_timestamps) ELSE 0,
     timestamp |-> now]

stats ==
    /\ lifespan_pc = "serving"
    /\ last' = [NoResponse EXCEPT !.status = 200, !.stats = StatsBody]
    /\ pre' = NoPre
    /\ UNCHANGED <<cfg, now, rate_logs, response_cache, cache_timestamps, handlers,
                   task, ready, lifespan_pc, admitted, rejected, stored, served>>

---------------------------------------------------------------------------
(* The janitor tasks.  Each is suspended in asyncio.sleep.  When the sleep *)
(* is over the event loop resumes the task, and one pass runs without any  *)
(* await, back to the next sleep.                                          *)

\* Mutant: the sweep prunes the lists and deletes none.
SweepLogs_keeps_empty(logs, t, S) ==
    [ip \in DOMAIN logs |->
        IF ip \in S THEN PruneWindow(logs[ip], t) ELSE logs[ip]]

\* The loop body of cleanup_old_logs on the clients of S, at time t.
SweepLogs(logs, t, S) ==
    LET kept == [ip \in DOMAIN logs |->
                    IF ip \in S THEN PruneWindow(logs[ip], t) ELSE logs[ip]]
    IN  [ip \in {i \in DOMAIN logs : ~(i \in S /\ kept[i] = <<>>)} |-> kept[ip]]

\* Mutant: the sweep takes every key as expired.
ExpiredKeys_all(t) == DOMAIN cache_timestamps

\* expired_keys of cleanup_old_cache
ExpiredKeys(t) ==
    {key \in DOMAIN cache_timestamps :
        (t - cache_timestamps[key]) > Secs(CACHE_TTL)}

\* d.pop(key, None) for every key of S
PopAll(d, S) == [key \in (DOMAIN d) \ S |-> d[key]]

\* One pass of cleanup_old_logs after asyncio.sleep(RATE_WINDOW * 2).
cleanup_old_logs ==
    /\ task["cleanup_task1"] = "sleeping"
    /\ rate_logs' = SweepLogs(rate_logs, now, DOMAIN rate_logs)
    /\ last' = NoResponse
    /\ pre' = NoPre
    /\ UNCHANGED <<cfg, now, response_cache, cache_timestamps, handlers, task,
                   ready, lifespan_pc, admitted, rejected, stored, served>>

\* One pass of cleanup_old_cache after asyncio.sleep(60).
cleanup_old_cache ==
    /\ task["cleanup_task2"] = "sleeping"
    /\ response_cache' = PopAll(response_cache, ExpiredKeys(now))
    /\ cache_timestamps' = PopAll(cache_timestamps, ExpiredKeys(now))
    /\ last' = NoResponse
    /\ pre' = NoPre
    /\ UNCHANGED <<cfg, now, rate_logs, handlers, task, ready, lifespan_pc, admitted, rejected, stored, served>>

\* A pass raises after the entries of S: neither loop has a try, so the
\* exception leaves the coroutine and the task is done with that exception.
cleanup_old_logs_raises(S) ==
    /\ task["cleanup_task1"] = "sleeping"
    /\ S \subseteq DOMAIN rate_logs
    /\ rate_logs' = SweepLogs(rate_logs, now, S)
    /\ task' = [task EXCEPT !["cleanup_task1"] = "failed"]
    /\ last' = NoResponse
    /\ pre' = NoPre
    /\ UNCHANGED <<cfg, now, response_cache, cache_timestamps, handlers, ready,
                   lifespan_pc, admitted, rejected, stored, served>>

cleanup_old_cache_raises(S) ==
    /\ task["cleanup_task2"] = "sleeping"
    /\ S \subseteq ExpiredKeys(now)
    /\ response_cache' = PopAll(response_cache, S)
    /\ cache_timestamps' = PopAll(cache_timestamps, S)
    /\ task' = [task EXCEPT !["cleanup_task2"] = "failed"]
    /\ last' = NoResponse
    /\ pre' = NoPre
    /\ UNCHANGED <<cfg, now, rate_logs, handlers, ready, lifespan_pc, admitted, rejected, stored, served>>

---------------------------------------------------------------------------
(* lifespan, after its yield.  ready is the event loop's FIFO queue of the *)
(* wakeups that the shutdown schedules (loop.call_soon).                   *)

\* Task.cancel() on each task of order: a task that is done is left alone; a
\* sleeping one has its sleep cancelled, which queues its wakeup.
Cancelled(order) == SelectSeq(order, LAMBDA j : task[j] = "sleeping")

\* The shutdown code up to "await cleanup_task1": awaiting a task that is
\* done returns or raises at once, without suspending.
lifespan_shutdown ==
    /\ lifespan_pc = "serving"
    /\ task' = [j \in Janitors |->
                   IF task[j] = "sleeping" THEN "cancelling" ELSE task[j]]
    /\ ready' = ready \o Cancelled(<<"cleanup_task1", "cleanup_task2">>)
    /\ lifespan_pc' = IF task["cleanup_task1"] = "failed"
                      THEN "error"
                      ELSE "await cleanup_task1"
    /\ last' = NoResponse
    /\ pre' = NoPre
    /\ UNCHANGED <<cfg, now, rate_logs, response_cache, cache_timestamps, handlers,
                   admitted, rejected, stored, served>>

\* CancelledError is thrown into the coroutine at its sleep: the task ends
\* cancelled, and the task awaiting it is woken.
janitor_cancelled(j) ==
    /\ ready /= <<>> /\ Head(ready) = j
    /\ task' = [task EXCEPT ![j] = "cancelled"]
    /\ ready' = IF lifespan_pc = "await " \o j
                THEN Append(Tail(ready), "lifespan")
                ELSE Tail(ready)
    /\ last' = NoResponse
    /\ pre' = NoPre
    /\ UNCHANGED <<cfg, now, rate_logs, response_cache, cache_timestamps, handlers,
                   lifespan_pc, admitted, rejected, stored, served>>

\* "await cleanup_task1" raises what the task ended with: CancelledError is
\* caught by the except clause, which skips "await cleanup_task2".
lifespan_resumed ==
    /\ ready /= <<>> /\ Head(ready) = "lifespan"
    /\ lifespan_pc' = IF task["cleanup_task1"] = "cancelled" THEN "done" ELSE "error"
    /\ ready' = Tail(ready)
    /\ last' = NoResponse
    /\ pre' = NoPre
    /\ UNCHANGED <<cfg, now, rate_logs, response_cache, cache_timestamps, handlers,
                   task, admitted, rejected, stored, served>>

---------------------------------------------------------------------------
(* Next-state relations.  The actions are those above; a specification     *)
(* fixes the environment and the inputs that its requests are drawn from.  *)

Requests(C, U, N) ==
    \E h \in Handlers, ip \in C, url \in U, nocache \in N :
        download(h, ip, url, nocache)

Replies(P, F, R) ==
    \/ \E h \in Handlers, data \in P : download_stored(h, data)
    \/ \E h \in Handlers, failure \in F :
          \E reply \in Carried(failure, R) : download_failed(h, failure, reply)

Sweeps ==
    \/ cleanup_old_logs
    \/ cleanup_old_cache

Crashes ==
    \/ \E S \in SUBSET Clients : cleanup_old_logs_raises(S)
    \/ \E S \in SUBSET DOMAIN cache_timestamps : cleanup_old_cache_raises(S)

Shutdown ==
    \/ lifespan_shutdown
    \/ \E j \in Janitors : janitor_cancelled(j)
    \/ lifespan_resumed

\* Every tick up to MaxTime.
Instants == 0 .. MaxTime

\* The instants of the rate scenario: requests at t = 0, 1, 2, and around
\* the end of the reported retry_after of 58 s.
RateScenarioInstants == {0, Secs(1), Secs(2), Secs(59) + 1, Secs(60), Secs(61)}

\* The instants of the cache scenario: a store at t = 0, lookups at t = 100
\* and t = 400, and around the end of the TTL.
CacheScenarioInstants == {0, Secs(100), Secs(299) + 1, Secs(300), Secs(400)}

\* The whole service: one client, every kind of reply, janitor failures and
\* the shutdown.
Init == Boot({CacheConfig})

Next ==
    \/ Tick(Instants)
    \/ Requests({"A"}, {UrlMissing, UrlHttp}, BOOLEAN)
    \/ Replies({"x1"}, UpstreamFailures, {Forbidden})
    \/ Sweeps
    \/ Crashes
    \/ Shutdown

Spec == Init /\ [][Next]_vars

\* The rate limiter under requests of two clients that end at the rate check
\* or at the validation, the statistics and the sweeps.
InitRate == Boot({RateConfig, ScenarioConfig})

NextRate ==
    \/ Tick(IF cfg = ScenarioConfig THEN RateScenarioInstants ELSE Instants)
    \/ Requests(Clients, {UrlMissing, UrlFtp}, BOOLEAN)
    \/ stats
    \/ Sweeps

SpecRate == InitRate /\ [][NextRate]_vars

\* The cache under requests of one client for one URL, with and without
\* nocache, two upstream payloads, and the sweeps.
InitCache == Boot({CacheConfig, ScenarioConfig})

NextCache ==
    \/ Tick(IF cfg = ScenarioConfig THEN CacheScenarioInstants ELSE Instants)
    \/ Requests({"A"}, {UrlHttp}, BOOLEAN)
    \/ Replies(Payloads, {"ReadTimeout"}, {})
    \/ Sweeps

SpecCache == InitCache /\ [][NextCache]_vars

\* The upstream call: requests of one client for one URL, every kind of
\* reply, among them 2xx bodies that are not JSON objects, and the sweeps.
InitUpstream == Boot({CacheConfig})

NextUpstream ==
    \/ Tick(Instants)
    \/ Requests({"A"}, {UrlHttp}, BOOLEAN)
    \/ Replies({"x1"} \cup NotObjects, UpstreamFailures, ErrorReplies)
    \/ Sweeps

SpecUpstream == InitUpstream /\ [][NextUpstream]_vars

\* The cache under requests for two URLs, and the statistics.
InitUrls == Boot({CacheConfig})

NextUrls ==
    \/ Tick(Instants)
    \/ Requests({"A"}, {UrlHttp, UrlHttps}, {FALSE})
    \/ Replies(Payloads, {"ReadTimeout"}, {})
    \/ stats
    \/ Sweeps

SpecUrls == InitUrls /\ [][NextUrls]_vars

---------------------------------------------------------------------------
(* Properties *)

\* A request was handled by the step just taken, up to its response or to
\* the upstream call.
Requested == last.ip /= ""

\* C1: for every client, at every time, at most RATE_LIMIT of its admissions
\* are less than RATE_WINDOW seconds old; and a request that finds exactly
\* RATE_LIMIT such admissions is rejected.
C1_SlidingWindow ==
    /\ \A ip \in Clients : Len(InWindow(admitted[ip], now)) <= RATE_LIMIT
    /\ pre.full => last.status = 429

\* A client is rejected with a full window after time has passed and a
\* sweep has pruned the table.
C1_Witness ==
    /\ pre.full
    /\ last.status = 429
    /\ now > 0
    /\ \E ip \in Clients : ip \notin DOMAIN rate_logs /\ rejected[ip] /= NotRejected

\* C2: the first request of a client after a rejection, made retry_after
\* seconds or more after it, is admitted; in the scenario RATE_LIMIT = 2,
\* RATE_WINDOW = 60 the requests at t = 0, 1, 2 are admitted, admitted and
\* rejected with retry_after 58.
C2_RetryAfterAdmits ==
    /\ pre.waited => last.status /= 429
    /\ (/\ cfg = ScenarioConfig
        /\ Requested
        /\ now = Secs(2)
        /\ Len(admitted[last.ip]) >= 2
        /\ SubSeq(admitted[last.ip], 1, 2) = <<0, Secs(1)>>)
       => /\ last.status = 429
          /\ last.retry_after = 58
          /\ Len(admitted[last.ip]) = 2

\* A client that was rejected is admitted after waiting retry_after seconds.
C2_Witness ==
    /\ pre.waited
    /\ Requested
    /\ last.status = 400

\* The scenario of C2 is reached: the third request, at t = 2, is rejected.
C2_ScenarioWitness ==
    /\ cfg = ScenarioConfig
    /\ now = Secs(2)
    /\ last.status = 429
    /\ admitted[last.ip] = <<0, Secs(1)>>

\* C3: a request whose url is absent or does not start with http:// or
\* https:// ends with status 400, whatever the client's rate-limit window.
C3_ValidationFirst ==
    (Requested /\ (UrlFalsy(last.url) \/ ~UrlStartsWithHttp(last.url)))
        => last.status = 400

\* The request of the step just taken reached the cache lookup.
Lookup == Requested /\ ~last.nocache /\ last.status \notin {429, 400}

\* The cache key of that request.
Key == get_cache_key(last.url)

\* The latest store for key k is less than CACHE_TTL seconds old.
FreshStore(k) ==
    /\ k \in DOMAIN stored
    /\ now - stored[k].time < CACHE_TTL * TicksPerSec

\* The handler of that request is suspended in the upstream call.
CalledUpstream ==
    /\ last.upstream
    /\ last.status = 0
    /\ \E h \in Handlers :
          handlers[h].pc = "client.get" /\ handlers[h].url = last.url

C5_ScenarioHit ==
    /\ cfg = ScenarioConfig /\ Lookup /\ now = Secs(100)
    /\ last.hit /\ Key \in DOMAIN stored /\ stored[Key].time = 0

C5_ScenarioMiss ==
    /\ cfg = ScenarioConfig /\ Lookup /\ now = Secs(400)
    /\ ~last.hit /\ Key \in DOMAIN stored /\ stored[Key].time = 0

\* C6: a request with nocache that passes the rate check and the validation
\* is never answered from the cache: it calls the upstream, and when that
\* call succeeds the entry of its URL holds the new payload and the current
\* time.
C6_NocacheBypasses ==
    /\ last.nocache => ~last.hit
    /\ (Requested /\ last.nocache /\ last.status \notin {429, 400})
           => CalledUpstream
    /\ (last.nocache /\ last.stored)
           => /\ Key \in DOMAIN response_cache
              /\ Key \in DOMAIN cache_timestamps
              /\ response_cache[Key].data = last.data
              /\ cache_timestamps[Key] = now

\* A nocache request calls the upstream although a fresh entry exists.
C6_Witness ==
    /\ Requested
    /\ last.nocache
    /\ CalledUpstream
    /\ FreshStore(Key)
    /\ Key \in DOMAIN response_cache

\* The upstream call of a nocache request succeeded and was stored.
C6_WitnessStore ==
    /\ last.nocache
    /\ last.stored
    /\ last.data = "x2"
    /\ \E h \in Handlers : handlers[h].pc = "client.get"

\* C7: a step that answers from the cache changes neither table and starts
\* no upstream call.
C7_HitLeavesEntry ==
    [][last'.hit => /\ response_cache' = response_cache
                    /\ cache_timestamps' = cache_timestamps
                    /\ handlers' = handlers]_vars

\* A hit on an entry stored earlier, whose timestamp is still that of the
\* store.
C7_Witness ==
    /\ last.hit
    /\ Key \in DOMAIN cache_timestamps
    /\ cache_timestamps[Key] < now
    /\ cache_timestamps[Key] = stored[Key].time

\* C8: under every interleaving of the handlers and the two janitors, the
\* timestamps of a client that are inside the window are exactly its
\* admissions inside the window, and every store that is not older than
\* CACHE_TTL is in both tables with its payload and timestamp.
C8_NoLostUpdate ==
    /\ \A ip \in Clients :
          InWindow(Get(rate_logs, ip, <<>>), now) = InWindow(admitted[ip], now)
    /\ \A k \in DOMAIN stored :
          now - stored[k].time <= CACHE_TTL * TicksPerSec
              => /\ k \in DOMAIN response_cache
                 /\ k \in DOMAIN cache_timestamps
                 /\ response_cache[k].data = stored[k].data
                 /\ cache_timestamps[k] = stored[k].time

\* A sweep has removed an expired entry and kept a younger one, while a
\* handler is suspended in its upstream call.
C8_Witness ==
    /\ \E k \in DOMAIN stored : k \notin DOMAIN response_cache
    /\ \E k \in DOMAIN stored : k \in DOMAIN response_cache
    /\ \E h \in Handlers : handlers[h].pc = "client.get"
    /\ \E ip \in Clients : ip \in DOMAIN rate_logs /\ admitted[ip] /= <<>>

\* The shutdown code of lifespan has ended, by falling off its end or by an
\* exception.
ShutdownOver == lifespan_pc \in {"done", "error"}

\* C9: when the shutdown is over both janitor tasks have terminated, and a
\* shutdown that only met cancelled tasks ends cleanly.
C9_ShutdownWaitsForJanitors ==
    ShutdownOver
        => /\ \A j \in Janitors : task[j] \in {"cancelled", "failed"}
           /\ (\A j \in Janitors : task[j] = "cancelled") => lifespan_pc = "done"

\* The same, for the runs in which cleanup_old_logs has not failed.
C9_UnlessLogsSweepFailed ==
    task["cleanup_task1"] /= "failed" => C9_ShutdownWaitsForJanitors

\* C10: a janitor task only ever stops by cancellation: after a pass that
\* raised, the task is back in its sleep.
C10_SweepFailureContained ==
    \A j \in Janitors : task[j] \in {"sleeping", "cancelling", "cancelled"}

\* The step just taken answered GET /stats.
StatsRead == last.stats /= NoStats

\* The admissions of every client that are inside the window now.
Recent == [ip \in Clients |-> InWindow(admitted[ip], now)]

\* After a rate check, every timestamp of the client's list is inside the
\* window.
C11_AdmissionReadsWindow ==
    Requested
        => \A i \in 1 .. Len(rate_logs[last.ip]) :
              now - rate_logs[last.ip][i] < RATE_WINDOW * TicksPerSec

\* C11: whenever the window is read, by a rate check or by GET /stats, only
\* the admissions less than RATE_WINDOW seconds old are counted: /stats
\* reports the number of clients that have such admissions, and their total.
C11_ReadsOnlyWindow ==
    /\ C11_AdmissionReadsWindow
    /\ StatsRead
          => /\ last.stats.active_ips
                    = Cardinality({ip \in Clients : Recent[ip] /= <<>>})
             /\ last.stats.total_recent_requests = SumLen(Recent, Clients)

\* C12: GET /stats reports the oldest cache timestamp: the minimum over the
\* entries of the cache, and 0 when the cache is empty.
C12_StatsOldestTimestamp ==
    StatsRead
        => IF DOMAIN cache_timestamps = {}
           THEN last.stats.max_age = 0
           ELSE /\ \E k \in DOMAIN cache_timestamps :
                      last.stats.max_age = cache_timestamps[k]
                /\ \A k \in DOMAIN cache_timestamps :
                      last.stats.max_age <= cache_timestamps[k]

\* For an empty cache GET /stats reports 0, and for a cache whose entries
\* have one timestamp, that timestamp.
C12_UnlessTimestampsDiffer ==
    (StatsRead /\ \A k, m \in DOMAIN cache_timestamps :
                     cache_timestamps[k] = cache_timestamps[m])
        => C12_StatsOldestTimestamp

\* The handlers that are suspended in the upstream call.
InFlight(hs) == {h \in Handlers : hs[h].pc = "client.get"}

\* C13: a failure of the upstream call ends its request with one error, of
\* the status of its class: 504 for the two timeouts, 502 for a non-2xx
\* status (with the upstream status code and the upstream message), for a
\* transport failure and for an unparseable body, 500 for anything else;
\* the handler of the request returns and no upstream call is started.
C13_FailureTaxonomy ==
    [][last'.cause /= ""
          => /\ last'.cause \in {"ConnectTimeout", "ReadTimeout"}
                    => last'.status = 504
             /\ last'.cause \in {"HTTPStatusError", "RequestError", "JSONDecodeError"}
                    => last'.status = 502
             /\ last'.cause \in {"Exception", "TypeError"} => last'.status = 500
             /\ last'.cause = "HTTPStatusError"
                    => /\ last'.status_code = last'.reply.status_code
                       /\ last'.status_code \in ErrorCodes
                       /\ last'.message /= ""
                       /\ last'.reply.body.has_error
                              => last'.message = last'.reply.body.error
                       /\ (last'.reply.body.json = "invalid"
                              /\ last'.reply.body.text /= "")
                              => last'.message = last'.reply.body.text
             /\ ~last'.hit /\ ~last'.stored
             /\ InFlight(handlers') \subseteq InFlight(handlers)
             /\ \A h \in InFlight(handlers') : handlers'[h] = handlers[h]
             /\ last'.upstream
                    => Cardinality(InFlight(handlers'))
                           = Cardinality(InFlight(handlers)) - 1]_vars

\* The upstream answered 403 with the body {"error":"bad key"}: the request
\* ends with 502, carrying 403 and "bad key", while another request is
\* still waiting for its own upstream call.
C13_Witness ==
    /\ last.cause = "HTTPStatusError"
    /\ last.reply = Forbidden
    /\ last.status = 502
    /\ last.status_code = 403
    /\ last.message = "bad key"
    /\ InFlight(handlers) /= {}

\* The read timeout of the scenario of C13 ends with 504.
C13_WitnessTimeout ==
    /\ last.cause = "ReadTimeout"
    /\ last.status = 504
    /\ last.error = "Gateway Timeout"

\* The timestamps of every client have all left the window.
AgedOut(ip) == ip \in DOMAIN rate_logs /\ InWindow(rate_logs[ip], now) = <<>>

\* A pass of cleanup_old_logs that changed the table and returned to its
\* sleep leaves, for every client, its timestamps inside the window in their
\* order, and no client without any.
C14_SweepPass ==
    [][(rate_logs' /= rate_logs /\ last' = NoResponse /\ task' = task)
          => rate_logs' = [ip \in {i \in DOMAIN rate_logs : ~AgedOut(i)} |->
                              InWindow(rate_logs[ip], now)]]_vars

\* C14: a pass of cleanup_old_logs prunes every client to its window and
\* deletes the clients left with nothing, and as the pass recurs a client
\* that stops sending is removed: while the service runs and a client whose
\* timestamps have all aged out is in the table, the task of cleanup_old_logs
\* is in its sleep, with a pass to come.
C14_AgedOutClientIsSwept ==
    \A ip \in Clients :
        (AgedOut(ip) /\ lifespan_pc = "serving")
            => task["cleanup_task1"] = "sleeping"

\* The entry of key is older than CACHE_TTL.
Expired(key) ==
    /\ key \in DOMAIN cache_timestamps
    /\ now - cache_timestamps[key] > CACHE_TTL * TicksPerSec

\* A pass of cleanup_old_cache that changed the tables and returned to its
\* sleep leaves exactly the entries that are not older than CACHE_TTL, as
\* they were.
C15_SweepPass ==
    [][(/\ <<response_cache, cache_timestamps>>' /= <<response_cache, cache_timestamps>>
        /\ last' = NoResponse
        /\ task' = task)
          => /\ cache_timestamps' =
                    [k \in {x \in DOMAIN cache_timestamps : ~Expired(x)} |->
                        cache_timestamps[k]]
             /\ response_cache' =
                    [k \in {x \in DOMAIN response_cache : ~Expired(x)} |->
                        response_cache[k]]]_vars

\* C15: a pass of cleanup_old_cache removes the entries older than CACHE_TTL
\* and leaves the others, and as the pass recurs an entry that is not stored
\* again is removed: while the service runs and an entry older than
\* CACHE_TTL is in the table, the task of cleanup_old_cache is in its sleep,
\* with a pass to come.
C15_ExpiredEntryIsSwept ==
    \A key \in DOMAIN cache_timestamps :
        (Expired(key) /\ lifespan_pc = "serving")
            => task["cleanup_task2"] = "sleeping"

\* The step taken ends a request with an error status.
EndsInError == last'.status >= 400

\* The step taken ends a request with one of the errors of the list of C16:
\* 400, 429, or a failure of the upstream call (a timeout, a non-2xx status,
\* a transport failure, an unparseable body).
EndsInListedError ==
    \/ last'.status \in {400, 429}
    \/ last'.cause \in {"ConnectTimeout", "ReadTimeout", "HTTPStatusError",
                        "RequestError", "JSONDecodeError"}

C16_EveryErrorLeavesCache ==
    [][EndsInError
          => /\ response_cache' = response_cache
             /\ cache_timestamps' = cache_timestamps]_vars

\* A lookup finds the fresh entry of such a body and ends with 500.
C16_EntryNotServed ==
    /\ Lookup
    /\ FreshStore(Key)
    /\ last.status = 500
    /\ ~last.hit

\* C17: a rate check leaves in the client's list its timestamps inside the
\* window, followed by now when the request is admitted and by nothing when
\* it is rejected, and leaves the list of every other client as it was.
C17_AppendOnlyOnAdmission ==
    [][last'.ip /= ""
          => /\ DOMAIN rate_logs' = DOMAIN rate_logs \cup {last'.ip}
             /\ rate_logs'[last'.ip] =
                    IF last'.status = 429
                    THEN InWindow(Get(rate_logs, last'.ip, <<>>), now)
                    ELSE Append(InWindow(Get(rate_logs, last'.ip, <<>>), now), now)
             /\ \A ip \in DOMAIN rate_logs \ {last'.ip} :
                    rate_logs'[ip] = rate_logs[ip]]_vars

\* A client is rejected after some of its timestamps have expired, while the
\* list of the other client holds an expired timestamp that no sweep has
\* removed.
C17_Witness ==
    /\ last.status = 429
    /\ rate_logs[last.ip][1] > 0
    /\ Len(rate_logs[last.ip]) = RATE_LIMIT
    /\ \E ip \in DOMAIN rate_logs \ {last.ip} :
          InWindow(rate_logs[ip], now) /= rate_logs[ip]

\* C18: in every state the list of every client in rate_logs has at least
\* one and at most RATE_LIMIT timestamps, expired ones included, and its
\* first timestamp is its oldest.
C18_ListsBounded ==
    \A ip \in DOMAIN rate_logs :
        /\ Len(rate_logs[ip]) >= 1
        /\ Len(rate_logs[ip]) <= RATE_LIMIT
        /\ \A i \in 1 .. Len(rate_logs[ip]) : rate_logs[ip][1] <= rate_logs[ip][i]

\* The list of a client is full and holds an expired timestamp, after a
\* sweep has deleted the list of another client that had been rejected.
C18_Witness ==
    \E a, b \in Clients :
        /\ a \in DOMAIN rate_logs
        /\ Len(rate_logs[a]) = RATE_LIMIT
        /\ rate_logs[a][1] < rate_logs[a][RATE_LIMIT]
        /\ InWindow(rate_logs[a], now) /= rate_logs[a]
        /\ b \notin DOMAIN rate_logs
        /\ rejected[b] /= NotRejected

\* C19: in every state response_cache and cache_timestamps have the same
\* keys, and the timestamp of every payload is the time of the store that
\* wrote it, so that the age of a hit is never taken from the default 0.
C19_SameKeys ==
    /\ DOMAIN response_cache = DOMAIN cache_timestamps
    /\ \A k \in DOMAIN response_cache :
          /\ k \in DOMAIN stored
          /\ cache_timestamps[k] = stored[k].time
          /\ response_cache[k].data = stored[k].data
    /\ last.hit => last.age_seconds = (now - stored[Key].time) \div TicksPerSec

\* A hit on the entry of one URL, stored after time 0, when a sweep has
\* removed the entry of the other URL from both tables and a request for it
\* is waiting for the upstream.
C19_Witness ==
    /\ last.hit
    /\ stored[Key].time > 0
    /\ \E k \in DOMAIN stored :
          /\ k /= Key
          /\ k \notin DOMAIN response_cache
          /\ k \notin DOMAIN cache_timestamps
          /\ \E h \in Handlers :
                /\ handlers[h].pc = "client.get"
                /\ get_cache_key(handlers[h].url) = k

\* The number of timestamps of client ip in logs that are inside the window.
Used(logs, ip) == Len(InWindow(Get(logs, ip, <<>>), now))

\* C20: a request that the rate check admits adds one timestamp to the
\* window of its client, whether it then ends with a cache hit, a 400, a 500
\* or goes on to the upstream call; and the end of an upstream call, store or
\* failure, gives nothing back.
C20_OneUnitPerAdmission ==
    [][/\ (last'.ip /= "" /\ last'.status /= 429)
             => /\ Used(rate_logs', last'.ip) = Used(rate_logs, last'.ip) + 1
                /\ rate_logs'[last'.ip][Len(rate_logs'[last'.ip])] = now
       /\ (last'.ip = "" /\ last'.upstream) => rate_logs' = rate_logs]_vars

\* An upstream call has failed and both units of the client's quota are
\* still used.
C20_Witness ==
    /\ last.cause \in UpstreamFailures
    /\ last.ip = ""
    /\ Used(rate_logs, "A") = RATE_LIMIT

\* A cache hit has used a unit.
C20_WitnessHit ==
    /\ last.hit
    /\ now > 0
    /\ rate_logs[last.ip][Len(rate_logs[last.ip])] = now

\* A nocache request has used a unit.
C20_WitnessNocache ==
    /\ last.nocache
    /\ CalledUpstream
    /\ now > 0
    /\ rate_logs[last.ip][Len(rate_logs[last.ip])] = now

====
